---- MODULE Spec2Model ----
(***************************************************************************)
(* Model of src/router.ts: registerFunctionRoutes builds the route table   *)
(* of an Express application for one user function and one signature type, *)
(* and executeHandler runs the handler of a request between the            *)
(* 'execution started' and 'execution finished' logs.                      *)
(*                                                                         *)
(* JavaScript runs every callback to completion, so one action is one      *)
(* run-to-completion step: the synchronous walk of a request through the   *)
(* route table up to the await in executeHandler, the continuation after   *)
(* the await, the rejection of the awaited handler, a write of the handler *)
(* to the response, and the transport's finish signal of a response.       *)
(* The order of the calls inside one step is kept in trace[r].             *)
(***************************************************************************)
EXTENDS Integers, Sequences, FiniteSets, TLC

\* ---------------------------------------------------------------- bounds
MaxRequests == 2

Requests == 1..MaxRequests
Apps == {"app1", "app2"}
\* each application is handed its own user function, so that an invocation
\* tells which application's function ran
UserFunctionOf == [a \in Apps |-> IF a = "app1" THEN "f1" ELSE "f2"]

\* SignatureType (./types): the three declared values
HTTP == "http"
EVENT == "event"
CLOUD_EVENT == "cloudevent"
SignatureTypes == {HTTP, EVENT, CLOUD_EVENT}

Methods == {"GET", "POST"}
Paths == {"/", "/favicon.ico", "/robots.txt"}
NoisePaths == {"/favicon.ico", "/robots.txt"}
NoHost == "<absent>"
Hosts == {"cloudfunctions.net", "localhost", NoHost}

\* router.ts 48: the status of the noise rule's answer
StatusNotFound == 404
\* what a handler may write to res.statusCode: the value a fresh response
\* already has, and an error status
HandlerStatusCodes == {200, 500}

VARIABLES
  routes,   \* routes[a]: the route table of application a, in registration order
  sigType,  \* sigType[a]: the functionSignatureType a was registered with
  req,      \* req[r]: the request: app, method, path, host header, position
  res,      \* res[r]: the response object of request r
  trace,    \* trace[r]: the calls made for request r, in order
  err,      \* err[r]: where a rejection of the handler of request r ended up
  clock     \* the clock and the duration of one timed invocation (router.ts 93-97)

vars == <<routes, sigType, req, res, trace, err, clock>>

\* ------------------------------------------------------------- route table
\* One layer of the table. kind is the registration call (USE / ALL / POST),
\* pattern its path, cb the callback registered, fn the captured userFunction.
Layer(kind, pattern, cb, fn) ==
  [kind |-> kind, pattern |-> pattern, cb |-> cb, fn |-> fn]

\* the noise rule registered after the catch-all instead of before it
RegisteredLayersNoiseLast(userFunction, functionSignatureType) ==
  IF functionSignatureType = HTTP
  THEN << Layer("USE", "/*", "tracker", userFunction),
          Layer("ALL", "/*", "http", userFunction),
          Layer("USE", "/favicon.ico|/robots.txt", "noise", userFunction) >>
  ELSE IF functionSignatureType = EVENT
  THEN << Layer("POST", "/*", "event", userFunction) >>
  ELSE << Layer("POST", "/*", "cloudevent", userFunction) >>

\* the HTTP catch-all registered with app.get instead of app.all
RegisteredLayersGetOnly(userFunction, functionSignatureType) ==
  IF functionSignatureType = HTTP
  THEN << Layer("USE", "/favicon.ico|/robots.txt", "noise", userFunction),
          Layer("USE", "/*", "tracker", userFunction),
          Layer("GET", "/*", "http", userFunction) >>
  ELSE IF functionSignatureType = EVENT
  THEN << Layer("POST", "/*", "event", userFunction) >>
  ELSE << Layer("POST", "/*", "cloudevent", userFunction) >>

\* the event catch-all registered with app.all instead of app.post
RegisteredLayersEventAll(userFunction, functionSignatureType) ==
  IF functionSignatureType = HTTP
  THEN << Layer("USE", "/favicon.ico|/robots.txt", "noise", userFunction),
          Layer("USE", "/*", "tracker", userFunction),
          Layer("ALL", "/*", "http", userFunction) >>
  ELSE IF functionSignatureType = EVENT
  THEN << Layer("ALL", "/*", "event", userFunction) >>
  ELSE << Layer("POST", "/*", "cloudevent", userFunction) >>

\* the noise rule registered for every signature type
RegisteredLayersNoiseAlways(userFunction, functionSignatureType) ==
  << Layer("USE", "/favicon.ico|/robots.txt", "noise", userFunction) >>
    \o (IF functionSignatureType = HTTP
        THEN << Layer("USE", "/*", "tracker", userFunction),
                Layer("ALL", "/*", "http", userFunction) >>
        ELSE IF functionSignatureType = EVENT
        THEN << Layer("POST", "/*", "event", userFunction) >>
        ELSE << Layer("POST", "/*", "cloudevent", userFunction) >>)

\* the tracker registered after the catch-all instead of before it
RegisteredLayersTrackerLast(userFunction, functionSignatureType) ==
  IF functionSignatureType = HTTP
  THEN << Layer("USE", "/favicon.ico|/robots.txt", "noise", userFunction),
          Layer("ALL", "/*", "http", userFunction),
          Layer("USE", "/*", "tracker", userFunction) >>
  ELSE IF functionSignatureType = EVENT
  THEN << Layer("POST", "/*", "event", userFunction) >>
  ELSE << Layer("POST", "/*", "cloudevent", userFunction) >>

\* a registration that checks the signature type and registers nothing
\* for a value it does not know
RegisteredLayersValidating(userFunction, functionSignatureType) ==
  IF functionSignatureType = HTTP
  THEN << Layer("USE", "/favicon.ico|/robots.txt", "noise", userFunction),
          Layer("USE", "/*", "tracker", userFunction),
          Layer("ALL", "/*", "http", userFunction) >>
  ELSE IF functionSignatureType = EVENT
  THEN << Layer("POST", "/*", "event", userFunction) >>
  ELSE IF functionSignatureType = CLOUD_EVENT
  THEN << Layer("POST", "/*", "cloudevent", userFunction) >>
  ELSE << >>

\* router.ts 44-78: the layers registerFunctionRoutes appends, in order
RegisteredLayers(userFunction, functionSignatureType) ==
  IF functionSignatureType = HTTP
  THEN << Layer("USE", "/favicon.ico|/robots.txt", "noise", userFunction),
          Layer("USE", "/*", "tracker", userFunction),
          Layer("ALL", "/*", "http", userFunction) >>
  ELSE IF functionSignatureType = EVENT
  THEN << Layer("POST", "/*", "event", userFunction) >>
  ELSE << Layer("POST", "/*", "cloudevent", userFunction) >>

\* a variant that keeps one route table for all applications
RegisterOnShared(table, app, userFunction, functionSignatureType) ==
  [a \in Apps |-> table[a] \o RegisteredLayers(userFunction, functionSignatureType)]

\* registerFunctionRoutes(app, userFunction, functionSignatureType): the only
\* effect is on the route table of the application passed in
RegisterOn(table, app, userFunction, functionSignatureType) ==
  [table EXCEPT ![app] = @ \o RegisteredLayers(userFunction, functionSignatureType)]

\* The transport's matching of one layer, for the patterns registered above:
\* '/*' matches every path, 'a|b' matches the alternatives; app.use and
\* app.all match every method, app.post (app.get, ...) only its own.
LayerMatches(layer, method, path) ==
  /\ \/ layer.kind \in {"USE", "ALL"}
     \/ layer.kind = method
  /\ \/ layer.pattern = "/*"
     \/ layer.pattern = "/favicon.ico|/robots.txt" /\ path \in NoisePaths

\* ----------------------------------------------------------------- events
Ev(e, fn, status) == [ev |-> e, fn |-> fn, status |-> status]

\* the number of events e in tr
Count(tr, e) ==
  Cardinality({i \in 1..Len(tr) : tr[i].ev = e})

\* index of the first event e in tr, 0 if there is none
Pos(tr, e) ==
  LET at == {i \in 1..Len(tr) : tr[i].ev = e}
  IN IF at = {} THEN 0 ELSE CHOOSE i \in at : \A j \in at : i <= j

\* ------------------------------------------------------ response and state
FreshRes ==
  [statusCode |-> 200, body |-> "-", ended |-> FALSE,
   finished |-> FALSE, observers |-> 0,
   functionExecutionFinished |-> FALSE, fired |-> 0]

IdleReq ==
  [app |-> "-", method |-> "-", path |-> "-", host |-> "-", pc |-> "idle"]

\* the per-request state a step works on
St(rq, rs, tr, e) == [req |-> rq, res |-> rs, trace |-> tr, err |-> e]

\* ---------------------------------------------------------------- callbacks
\* router.ts 45-49: res.status(404).send(null); next is not called
NoiseCallback(st) ==
  [st EXCEPT !.res.statusCode = StatusNotFound,
             !.res.body = "",
             !.res.ended = TRUE,
             !.trace = Append(@, Ev("noise", "-", StatusNotFound)),
             !.req.pc = "answered"]

\* a tracker that calls next() without attaching the observer
TrackerForgets(st) ==
  st

\* a tracker that attaches its observer twice
TrackerTwice(st) ==
  [st EXCEPT !.res.observers = @ + 2,
             !.trace = @ \o << Ev("attach", "-", 0), Ev("attach", "-", 0) >>]

\* router.ts 51-56: onFinished(res, ...) attaches the observer; next() follows
TrackerCallback(st) ==
  [st EXCEPT !.res.observers = @ + 1,
             !.trace = Append(@, Ev("attach", "-", 0))]

\* a logging decision that ignores the host header
ShouldLogAlways(host) ==
  TRUE

\* router.ts 91: SHOULD_LOG_EXECUTION_TIME
ShouldLogExecutionTime(host) ==
  host # "cloudfunctions.net"

\* the logging calls after the invocation, made before it
BeforeHandlerLate(host, fn) ==
  << Ev("invoke", fn, 0) >>
    \o (IF ShouldLogExecutionTime(host) THEN << Ev("started", "-", 0) >> ELSE << >>)

\* router.ts 92-95 and 100: the calls of executeHandler up to the await
BeforeHandler(host, fn) ==
  (IF ShouldLogExecutionTime(host) THEN << Ev("started", "-", 0) >> ELSE << >>)
    \o << Ev("invoke", fn, 0) >>

\* router.ts 96-97: the continuation of executeHandler after the await
AfterHandler(host, statusCode) ==
  IF ShouldLogExecutionTime(host)
  THEN << Ev("finished", "-", statusCode) >>
  ELSE << >>

\* a finally-style executor: the finished log also on the error path
OnRejectedFinally(host, statusCode) ==
  AfterHandler(host, statusCode)

\* router.ts 95 and 100: a rejected await leaves executeHandler at once; no
\* statement of the function runs after it
OnRejected(host, statusCode) ==
  << >>

\* router.ts 60, 68, 76: the route callback calls executeHandler and neither
\* awaits nor returns nor catches its promise, so a rejection of that promise
\* is an unhandled rejection; next(err) is not called
CallerOnRejection ==
  "unhandledRejection"

\* the rejection of executeHandler's promise, for a request in state st
Rejected(st) ==
  [st EXCEPT !.trace = @ \o << Ev("rejected", "-", 0) >>
                         \o OnRejected(st.req.host, st.res.statusCode),
             !.req.pc = "rejected",
             !.err = CallerOnRejection]

\* router.ts 84-102, up to the await: throws is a handler that throws before
\* it returns its promise, which rejects the awaited value at once
ExecuteHandler(fn, st, throws) ==
  LET called == [st EXCEPT !.trace = @ \o BeforeHandler(st.req.host, fn),
                           !.req.pc = "awaiting"]
  IN IF throws THEN Rejected(called) ELSE called

\* catch-all callbacks that reuse a handler derived at registration: no
\* construction is made when a request is served
RouteCallbackReuses(layer, st, throws) ==
  ExecuteHandler(layer.fn, st, throws)

\* router.ts 58-61, 63-69, 71-77: the catch-all callbacks derive the handler
\* and pass it to executeHandler
RouteCallback(layer, st, throws) ==
  LET wraps == IF layer.cb = "event" THEN << Ev("wrapEventFunction", layer.fn, 0) >>
               ELSE IF layer.cb = "cloudevent"
               THEN << Ev("wrapCloudEventFunction", layer.fn, 0) >>
               ELSE << >>
      made == [st EXCEPT !.trace = @ \o wraps
                                     \o << Ev("makeHttpHandler", layer.fn, 0) >>]
  IN ExecuteHandler(layer.fn, made, throws)

\* no layer matched: the transport's default answer, outside this program
FinalHandler(st) ==
  [st EXCEPT !.req.pc = "unmatched"]

\* The transport's walk of the route table from layer i: first registered,
\* first tried; a callback that does not call next() ends the walk.
RECURSIVE Dispatch(_, _, _, _)
Dispatch(layers, i, st, throws) ==
  IF i > Len(layers) THEN FinalHandler(st)
  ELSE IF ~LayerMatches(layers[i], st.req.method, st.req.path)
  THEN Dispatch(layers, i + 1, st, throws)
  ELSE IF layers[i].cb = "noise" THEN NoiseCallback(st)
  ELSE IF layers[i].cb = "tracker"
  THEN Dispatch(layers, i + 1, TrackerCallback(st), throws)
  ELSE RouteCallback(layers[i], st, throws)

\* ------------------------------------------------------------------ timing
\* router.ts 93, 96, 97 on their own: the clock read before the handler is
\* called, the time that passes while it is awaited, and the duration handed
\* to logExecutionFinished.
MaxTicks == 3
\* router.ts 97: the divisor of hrend[1]
NsPerMs == 1000000
\* the steps by which time passes: 0.3 ms, 1 ms, 0.9997 s, 1 s
TickNs == {300000, 1000000, 999700000, 1000000000}
\* clock readings [seconds, nanoseconds] at which an invocation may start
StartTimes == {<<0, 0>>, <<7, 999500000>>}

IdleClock(t) ==
  [pc |-> "idle", now |-> t, hrstart |-> <<0, 0>>, ticks |-> 0,
   elapsed |-> <<0, 0>>, duration |-> [whole |-> 0, frac |-> 0]]

\* the clock d nanoseconds later, as [seconds, nanoseconds]
Later(t, d) ==
  << t[1] + ((t[2] + d) \div 1000000000), (t[2] + d) % 1000000000 >>

\* process.hrtime(start): the time from start to now as [seconds, nanoseconds]
HrTime(now, start) ==
  IF now[2] >= start[2]
  THEN << now[1] - start[1], now[2] - start[2] >>
  ELSE << now[1] - start[1] - 1, now[2] + 1000000000 - start[2] >>

\* router.ts 97: hrend[1] / 1_000_000, the first argument of
\* logExecutionFinished, as whole milliseconds and millionths of one
DurationArg(hrend) ==
  [whole |-> hrend[2] \div NsPerMs, frac |-> hrend[2] % NsPerMs]


\* ------------------------------------------------------------------ actions
InitRouter ==
  /\ routes = [a \in Apps |-> << >>]
  /\ sigType = [a \in Apps |-> "none"]
  /\ req = [r \in Requests |-> IdleReq]
  /\ res = [r \in Requests |-> FreshRes]
  /\ trace = [r \in Requests |-> << >>]
  /\ err = [r \in Requests |-> "none"]

Init ==
  /\ InitRouter
  /\ clock = IdleClock(<<0, 0>>)

\* registerFunctionRoutes is called once per application, before it serves
RegisterFunctionRoutes(app, userFunction, functionSignatureType) ==
  /\ routes[app] = << >>
  /\ routes' = RegisterOn(routes, app, userFunction, functionSignatureType)
  /\ sigType' = [sigType EXCEPT ![app] = functionSignatureType]
  /\ UNCHANGED <<req, res, trace, err, clock>>

Put(r, st) ==
  /\ req' = [req EXCEPT ![r] = st.req]
  /\ res' = [res EXCEPT ![r] = st.res]
  /\ trace' = [trace EXCEPT ![r] = st.trace]
  /\ err' = [err EXCEPT ![r] = st.err]

\* Request r arrives at a registered application and is walked through its
\* route table, up to the first await. Requests are numbered as they arrive.
Serve(r, app, method, path, host, throws) ==
  /\ req[r].pc = "idle"
  /\ \A q \in Requests : q < r => req[q].pc # "idle"
  /\ routes[app] # << >>
  /\ LET rq == [app |-> app, method |-> method, path |-> path,
                host |-> host, pc |-> "routing"]
     IN Put(r, Dispatch(routes[app], 1, St(rq, res[r], trace[r], err[r]), throws))
  /\ UNCHANGED <<routes, sigType, clock>>

\* The running handler of request r writes res.statusCode; headers that have
\* gone out are not written again.
HandlerWrite(r, code) ==
  /\ req[r].pc = "awaiting"
  /\ ~res[r].finished
  /\ res' = [res EXCEPT ![r].statusCode = code]
  /\ UNCHANGED <<routes, sigType, req, trace, err, clock>>

\* The awaited handler of request r fulfils: executeHandler resumes (96-97).
HandlerResolve(r) ==
  /\ req[r].pc = "awaiting"
  /\ req' = [req EXCEPT ![r].pc = "done"]
  /\ trace' = [trace EXCEPT ![r] = @ \o << Ev("settled", "-", 0) >>
                                     \o AfterHandler(req[r].host, res[r].statusCode)]
  /\ UNCHANGED <<routes, sigType, res, err, clock>>

\* The awaited handler of request r rejects.
HandlerReject(r) ==
  /\ req[r].pc = "awaiting"
  /\ Put(r, Rejected(St(req[r], res[r], trace[r], err[r])))
  /\ UNCHANGED <<routes, sigType, clock>>

\* an observer that writes the flag of every response in flight
FinishSignalAll(rs, r) ==
  [q \in Requests |->
     IF q = r
     THEN [rs[q] EXCEPT !.finished = TRUE,
                        !.functionExecutionFinished = (@ \/ rs[q].observers > 0),
                        !.fired = @ + rs[q].observers]
     ELSE [rs[q] EXCEPT !.functionExecutionFinished = (@ \/ rs[r].observers > 0)]]

\* an observer that flips the flag instead of setting it
FinishSignalToggles(rs, r) ==
  [rs EXCEPT ![r].finished = TRUE,
             ![r].functionExecutionFinished = IF rs[r].observers > 0 THEN ~@ ELSE @,
             ![r].fired = @ + rs[r].observers]

\* The transport signals that the response of r is finished (the answer went
\* out, or the connection closed): every observer attached by onFinished
\* runs once (router.ts 52-54) and sets res.locals.functionExecutionFinished.
FinishSignal(rs, r) ==
  [rs EXCEPT ![r].finished = TRUE,
             ![r].functionExecutionFinished = (@ \/ rs[r].observers > 0),
             ![r].fired = @ + rs[r].observers]

ResponseFinish(r) ==
  /\ req[r].pc # "idle"
  /\ ~res[r].finished
  /\ res' = FinishSignal(res, r)
  /\ UNCHANGED <<routes, sigType, req, trace, err, clock>>

Next ==
  \/ \E a \in Apps, s \in SignatureTypes :
       RegisterFunctionRoutes(a, UserFunctionOf[a], s)
  \/ \E r \in Requests, a \in Apps, m \in Methods, p \in Paths, h \in Hosts,
        t \in BOOLEAN :
       Serve(r, a, m, p, h, t)
  \/ \E r \in Requests, c \in HandlerStatusCodes : HandlerWrite(r, c)
  \/ \E r \in Requests : HandlerResolve(r)
  \/ \E r \in Requests : HandlerReject(r)
  \/ \E r \in Requests : ResponseFinish(r)

Spec == Init /\ [][Next]_vars

\* A caller that is not type-checked may pass any value as
\* functionSignatureType: router.ts 44 and 62 compare it with HTTP and EVENT
\* and 70 takes every other value.
MalformedSignature == "not-a-signature-type"
SignatureInputs == SignatureTypes \cup {MalformedSignature}

RegisterMalformed ==
  \E a \in Apps : RegisterFunctionRoutes(a, UserFunctionOf[a], MalformedSignature)

NextAnySignature ==
  \/ Next
  \/ RegisterMalformed

SpecAnySignature == Init /\ [][NextAnySignature]_vars

TypeOK ==
  /\ \A a \in Apps : Len(routes[a]) \in {0, 1, 3}
  /\ \A r \in Requests :
       req[r].pc \in {"idle", "awaiting", "done", "rejected", "answered", "unmatched"}

\* router.ts 93: const hrstart = process.hrtime()
TimingStart ==
  /\ clock.pc = "idle"
  /\ clock' = [clock EXCEPT !.pc = "awaiting", !.hrstart = clock.now]
  /\ UNCHANGED <<routes, sigType, req, res, trace, err>>

\* router.ts 95: time passes while the handler is awaited
TimePasses(d) ==
  /\ clock.pc = "awaiting"
  /\ clock.ticks < MaxTicks
  /\ clock' = [clock EXCEPT !.now = Later(@, d), !.ticks = @ + 1,
                            !.elapsed = Later(@, d)]
  /\ UNCHANGED <<routes, sigType, req, res, trace, err>>

\* router.ts 96-97: hrend = process.hrtime(hrstart); the duration logged
TimingFinish ==
  /\ clock.pc = "awaiting"
  /\ clock' = [clock EXCEPT !.pc = "logged",
                            !.duration = DurationArg(HrTime(clock.now, clock.hrstart))]
  /\ UNCHANGED <<routes, sigType, req, res, trace, err>>

InitTiming ==
  /\ InitRouter
  /\ \E t \in StartTimes : clock = IdleClock(t)

NextTiming ==
  \/ TimingStart
  \/ \E d \in TickNs : TimePasses(d)
  \/ TimingFinish

SpecTiming == InitTiming /\ [][NextTiming]_vars

\* ------------------------------------------------------------ vocabulary
\* request r has come in
Arrived(r) == req[r].pc # "idle"
\* the signature type of the application that serves r
SigOf(r) == IF Arrived(r) THEN sigType[req[r].app] ELSE "none"
Invocations(r) == Count(trace[r], "invoke")
StartedLogs(r) == Count(trace[r], "started")
FinishedLogs(r) == Count(trace[r], "finished")
\* the request was handed to executeHandler
ReachedExecutor(r) == Count(trace[r], "makeHttpHandler") > 0
\* every invocation made for r is of the function registered on r's application
InvokesOwnFunction(r) ==
  \A i \in 1..Len(trace[r]) :
    trace[r][i].ev = "invoke" => trace[r][i].fn = UserFunctionOf[req[r].app]

\* ------------------------------------------------------------------ claims
\* C1: with signature type HTTP, a request of any method for /favicon.ico or
\* /robots.txt is answered by the first-registered rule with status 404 and
\* an empty body; the user function is not invoked and neither the started
\* nor the finished log is made for it.
C1_NoiseAnswered404OnHttp ==
  \A r \in Requests :
    (Arrived(r) /\ SigOf(r) = HTTP /\ req[r].path \in NoisePaths) =>
      /\ res[r].statusCode = StatusNotFound
      /\ res[r].body = ""
      /\ routes[req[r].app][1].cb = "noise"
      /\ trace[r] # << >>
      /\ Head(trace[r]).ev = "noise"
      /\ Invocations(r) = 0
      /\ StartedLogs(r) = 0
      /\ FinishedLogs(r) = 0
      /\ ~ReachedExecutor(r)

C1_Witness ==
  /\ \E r \in Requests :
       /\ SigOf(r) = HTTP /\ req[r].path = "/favicon.ico" /\ req[r].method = "POST"
       /\ req[r].pc = "answered"
  /\ \E r \in Requests :
       /\ SigOf(r) = HTTP /\ req[r].path = "/robots.txt" /\ req[r].method = "GET"
       /\ req[r].pc = "answered"

\* C2: with signature type HTTP, a request of any method for a path other
\* than the two noise paths reaches the catch-all, and the handler (the user
\* function) is invoked exactly once for it.
C2_HttpCatchAllInvokesOnce ==
  \A r \in Requests :
    (Arrived(r) /\ SigOf(r) = HTTP /\ req[r].path \notin NoisePaths) =>
      /\ req[r].pc \in {"awaiting", "done", "rejected"}
      /\ Count(trace[r], "makeHttpHandler") = 1
      /\ Invocations(r) = 1
      /\ InvokesOwnFunction(r)

C2_Witness ==
  /\ \E r \in Requests :
       /\ SigOf(r) = HTTP /\ req[r].path = "/" /\ req[r].method = "GET"
       /\ Invocations(r) = 1
  /\ \E r \in Requests :
       /\ SigOf(r) = HTTP /\ req[r].path = "/" /\ req[r].method = "POST"
       /\ Invocations(r) = 1

\* C3: with signature type EVENT or CLOUD_EVENT, a request reaches the handler
\* if and only if its method is POST: a POST on any path invokes the handler
\* once; any other method invokes nothing and makes no started or finished log.
C3_EventsOnlyPost ==
  \A r \in Requests :
    (Arrived(r) /\ SigOf(r) \in {EVENT, CLOUD_EVENT}) =>
      IF req[r].method = "POST"
      THEN /\ req[r].pc \in {"awaiting", "done", "rejected"}
           /\ Invocations(r) = 1
           /\ InvokesOwnFunction(r)
      ELSE /\ req[r].pc = "unmatched"
           /\ trace[r] = << >>
           /\ Invocations(r) = 0
           /\ StartedLogs(r) = 0
           /\ FinishedLogs(r) = 0

C3_Witness ==
  /\ \E r \in Requests :
       /\ SigOf(r) = EVENT /\ req[r].method = "GET" /\ req[r].pc = "unmatched"
  /\ \E r \in Requests :
       /\ SigOf(r) = CLOUD_EVENT /\ req[r].method = "POST"
       /\ req[r].path = "/robots.txt" /\ Invocations(r) = 1

\* C4: for every signature type, a request whose host header is exactly
\* 'cloudfunctions.net' and that reaches executeHandler has its handler
\* invoked and awaited, and no started and no finished log is made for it,
\* whether the handler fulfils or rejects.
C4_NoLogsOnCloudFunctionsHost ==
  \A r \in Requests :
    (ReachedExecutor(r) /\ req[r].host = "cloudfunctions.net") =>
      /\ Invocations(r) = 1
      /\ StartedLogs(r) = 0
      /\ FinishedLogs(r) = 0
      /\ req[r].pc \in {"awaiting", "done", "rejected"}
      /\ req[r].pc = "done" => Count(trace[r], "settled") = 1
      /\ req[r].pc = "rejected" => Count(trace[r], "rejected") = 1

C4_Witness ==
  /\ \E r \in Requests :
       /\ req[r].host = "cloudfunctions.net" /\ req[r].pc = "done"
       /\ SigOf(r) = HTTP
  /\ \E r \in Requests :
       /\ req[r].host = "cloudfunctions.net" /\ req[r].pc = "rejected"
       /\ SigOf(r) = EVENT

\* C5: a request that reaches executeHandler with any other host header, an
\* absent one included, has exactly one started log, made before the handler
\* is invoked; once the handler has fulfilled it has exactly one finished
\* log, made after the handler settled; no finished log exists before the
\* handler settled; and the finished log carries res.statusCode as it is when
\* the log is made.
C5_State ==
  \A r \in Requests :
    (ReachedExecutor(r) /\ req[r].host # "cloudfunctions.net") =>
      /\ StartedLogs(r) = 1
      /\ Invocations(r) = 1
      /\ Pos(trace[r], "started") < Pos(trace[r], "invoke")
      /\ req[r].pc = "done" =>
           /\ FinishedLogs(r) = 1
           /\ Count(trace[r], "settled") = 1
           /\ Pos(trace[r], "settled") < Pos(trace[r], "finished")
      /\ FinishedLogs(r) > 0 =>
           /\ Count(trace[r], "settled") = 1
           /\ Pos(trace[r], "settled") < Pos(trace[r], "finished")
      /\ req[r].pc = "awaiting" => FinishedLogs(r) = 0

C5_Step ==
  \A r \in Requests :
    FinishedLogs(r)' > FinishedLogs(r) =>
      trace'[r][Len(trace'[r])] = Ev("finished", "-", res[r].statusCode)

\* C5: the order and number of the started and finished logs hold in every
\* state, and every step that makes a finished log gives it res.statusCode.
C5_StartedAndFinishedLogs ==
  []C5_State /\ [][C5_Step]_vars

C5_Witness ==
  /\ \E r \in Requests :
       /\ req[r].host = NoHost /\ req[r].pc = "done"
       /\ res[r].statusCode = 500
       /\ trace[r][Len(trace[r])] = Ev("finished", "-", 500)
  /\ \E r \in Requests :
       /\ req[r].host = "localhost" /\ req[r].pc = "awaiting"

\* C6: an error or rejection raised by the handler leaves executeHandler as a
\* rejection of its promise and reaches the transport's error channel
\* (next(err)) for that request; it is not dropped.
C6_RejectionReachesNext ==
  \A r \in Requests :
    req[r].pc = "rejected" =>
      /\ Count(trace[r], "rejected") = 1
      /\ err[r] = "next"

\* C7: with signature type HTTP, a request that passes the tracker has one
\* observer on its response; once the response is finished (while the handler
\* still runs, after it fulfilled or after it rejected) the flag
\* res.locals.functionExecutionFinished is true and the observer has run
\* exactly once; the flag is never reset.
C7_State ==
  \A r \in Requests :
    (Arrived(r) /\ SigOf(r) = HTTP /\ req[r].path \notin NoisePaths) =>
      /\ res[r].observers = 1
      /\ res[r].finished =>
           /\ res[r].functionExecutionFinished
           /\ res[r].fired = 1
      /\ ~res[r].finished =>
           /\ ~res[r].functionExecutionFinished
           /\ res[r].fired = 0

C7_Step ==
  \A r \in Requests :
    res[r].functionExecutionFinished => res'[r].functionExecutionFinished

\* C7: a finished tracked response has its flag set by one run of the
\* observer in every state, and no step resets the flag.
C7_FlagSetOnceOnFinish ==
  []C7_State /\ [][C7_Step]_vars

C7_Witness ==
  /\ \E r \in Requests :
       /\ SigOf(r) = HTTP /\ req[r].pc = "awaiting"
       /\ res[r].finished /\ res[r].functionExecutionFinished
  /\ \E r \in Requests :
       /\ SigOf(r) = HTTP /\ req[r].pc = "rejected"
       /\ res[r].finished /\ res[r].functionExecutionFinished

\* C8 as stated: for every signature type a handler for the two noise paths
\* is registered, answers 404 with an empty body, and keeps user code from
\* running for such a request.
C8_NoiseRuleForEverySignature ==
  /\ \A a \in Apps :
       sigType[a] # "none" => \E i \in 1..Len(routes[a]) : routes[a][i].cb = "noise"
  /\ \A r \in Requests :
       (Arrived(r) /\ req[r].path \in NoisePaths) =>
         /\ res[r].statusCode = StatusNotFound
         /\ res[r].body = ""
         /\ Invocations(r) = 0

\* C8 amended: the handler for the two noise paths is registered for
\* signature type HTTP only, where it answers 404 with an empty body and no
\* user code runs; for EVENT and CLOUD_EVENT no such handler is registered, a
\* POST to either path invokes the user function, and a request of another
\* method is answered by nothing of this program.
C8_NoiseRuleOnlyForHttp ==
  /\ \A a \in Apps :
       sigType[a] # "none" =>
         ((\E i \in 1..Len(routes[a]) : routes[a][i].cb = "noise") <=> sigType[a] = HTTP)
  /\ \A r \in Requests :
       (Arrived(r) /\ req[r].path \in NoisePaths) =>
         IF SigOf(r) = HTTP
         THEN /\ res[r].statusCode = StatusNotFound
              /\ res[r].body = ""
              /\ Invocations(r) = 0
         ELSE IF req[r].method = "POST"
         THEN /\ Invocations(r) = 1
              /\ Count(trace[r], "noise") = 0
              /\ res[r].body # ""
         ELSE /\ req[r].pc = "unmatched"
              /\ res[r].body # ""
              /\ res[r].statusCode # StatusNotFound

C8_Witness ==
  \E r \in Requests :
    /\ SigOf(r) = EVENT /\ req[r].method = "POST" /\ req[r].path = "/favicon.ico"
    /\ Invocations(r) = 1 /\ req[r].pc = "done"

\* C9: registerFunctionRoutes on two applications gives two independent route
\* tables: the table of an application holds exactly what its own
\* registration put there, a registration changes no other table, a request
\* invokes only the user function of its own application, and a step that
\* writes one response writes no other.
C9_State ==
  /\ \A a \in Apps :
       routes[a] = IF sigType[a] = "none" THEN << >>
                   ELSE RegisteredLayers(UserFunctionOf[a], sigType[a])
  /\ \A r \in Requests : Arrived(r) => InvokesOwnFunction(r)

C9_Step ==
  /\ \A a, b \in Apps :
       (a # b /\ routes'[a] # routes[a]) =>
         /\ routes'[b] = routes[b]
         /\ sigType'[b] = sigType[b]
  /\ \A r, q \in Requests :
       (r # q /\ (res'[r] # res[r] \/ trace'[r] # trace[r])) =>
         /\ res'[q] = res[q]
         /\ trace'[q] = trace[q]
         /\ req'[q] = req[q]
         /\ routes' = routes

\* C9: every table is its own registration's in every state, and no step
\* writes two tables or two requests.
C9_IndependentApplications ==
  []C9_State /\ [][C9_Step]_vars

C9_Witness ==
  /\ sigType["app1"] = HTTP /\ sigType["app2"] = EVENT
  /\ \E r, q \in Requests :
       /\ req[r].app = "app1" /\ Invocations(r) = 1 /\ req[r].pc = "done"
       /\ req[q].app = "app2" /\ Invocations(q) = 1 /\ req[q].pc = "done"
       /\ res[r].statusCode # res[q].statusCode

\* C10: with timing enabled (host header not 'cloudfunctions.net'), a request
\* whose handler threw or rejected has its started log and has no finished log.
C10_NoFinishedLogOnRejection ==
  \A r \in Requests :
    (req[r].pc = "rejected" /\ req[r].host # "cloudfunctions.net") =>
      /\ StartedLogs(r) = 1
      /\ FinishedLogs(r) = 0
      /\ trace[r][Len(trace[r])].ev = "rejected"

C10_Witness ==
  \E r \in Requests :
    /\ req[r].pc = "rejected" /\ req[r].host = "localhost"
    /\ res[r].statusCode = 500 /\ res[r].finished

\* C11: with signature type HTTP, a request whose handler has been invoked
\* (it runs, has fulfilled, or has thrown or rejected) had the finish
\* observer attached to its response before the invocation.
C11_ObserverBeforeHandler ==
  \A r \in Requests :
    (SigOf(r) = HTTP /\ (Invocations(r) > 0 \/ ReachedExecutor(r))) =>
      /\ res[r].observers >= 1
      /\ Pos(trace[r], "attach") > 0
      /\ Pos(trace[r], "attach") < Pos(trace[r], "makeHttpHandler")
      /\ Pos(trace[r], "attach") < Pos(trace[r], "invoke")

C11_Witness ==
  /\ \E r \in Requests :
       /\ SigOf(r) = HTTP /\ req[r].pc = "rejected" /\ ~res[r].finished
       /\ res[r].observers = 1
  /\ \E r \in Requests :
       /\ SigOf(r) = HTTP /\ req[r].pc = "awaiting" /\ ~res[r].finished
       /\ res[r].observers = 1

\* the handler constructions (makeHttpHandler calls) made for application a
Constructions(a) ==
  Cardinality(UNION {
    {<<r, i>> : i \in {j \in 1..Len(trace[r]) : trace[r][j].ev = "makeHttpHandler"}} :
      r \in {q \in Requests : Arrived(q) /\ req[q].app = a} })

C14_OneObserverPerRequest ==
  \A r \in Requests :
    Arrived(r) => (res[r].observers = 1 /\ Count(trace[r], "attach") = 1)

\* C14 amended: a request has exactly one finish observer on its response
\* when the signature type is HTTP and its path is not one of the two noise
\* paths, and none otherwise (noise paths, EVENT, CLOUD_EVENT); never more
\* than one.
C14_OneObserverPerTrackedRequest ==
  \A r \in Requests :
    Arrived(r) =>
      /\ res[r].observers =
           (IF SigOf(r) = HTTP /\ req[r].path \notin NoisePaths THEN 1 ELSE 0)
      /\ Count(trace[r], "attach") = res[r].observers
      /\ res[r].fired <= 1

C14_Witness ==
  /\ \E r \in Requests :
       /\ SigOf(r) = EVENT /\ req[r].pc = "done" /\ res[r].observers = 0
       /\ res[r].finished
  /\ \E r \in Requests :
       /\ SigOf(r) = HTTP /\ req[r].pc = "done" /\ res[r].observers = 1
       /\ res[r].finished

\* the route table of r's application holds a catch-all for r's method
RoutedToHandler(r) ==
  /\ Arrived(r)
  /\ IF SigOf(r) = HTTP THEN req[r].path \notin NoisePaths
     ELSE req[r].method = "POST"

\* C15: requests in flight are independent. In every state a request whose
\* handler has not settled has no finished log; every request routed to a
\* handler has had it invoked whatever the other requests do; its started
\* log depends on its own host header only; its flag is set only if its own
\* response finished. In every step at most one request changes, a flag is
\* set only in the step that finishes its own response, and a waiting
\* request leaves the await only by its own handler settling.
C15_State ==
  \A r \in Requests :
    /\ req[r].pc = "awaiting" => FinishedLogs(r) = 0
    /\ RoutedToHandler(r) =>
         /\ Invocations(r) = 1
         /\ StartedLogs(r) = (IF req[r].host # "cloudfunctions.net" THEN 1 ELSE 0)
    /\ res[r].functionExecutionFinished => res[r].finished

C15_Step ==
  /\ \A r, q \in Requests :
       (r # q /\ (req'[r] # req[r] \/ res'[r] # res[r]
                    \/ trace'[r] # trace[r] \/ err'[r] # err[r])) =>
         /\ req'[q] = req[q]
         /\ res'[q] = res[q]
         /\ trace'[q] = trace[q]
         /\ err'[q] = err[q]
  /\ \A r \in Requests :
       (res'[r].functionExecutionFinished /\ ~res[r].functionExecutionFinished) =>
         (res'[r].finished /\ ~res[r].finished)
  /\ \A r \in Requests :
       (req[r].pc = "awaiting" /\ req'[r].pc # "awaiting") =>
         \/ req'[r].pc = "done" /\ Count(trace'[r], "settled") = 1
         \/ req'[r].pc = "rejected" /\ Count(trace'[r], "rejected") = 1

\* C15: the state part holds in every state and the step part in every step
C15_IndependentRequests ==
  []C15_State /\ [][C15_Step]_vars

C15_Witness ==
  /\ req[1].pc = "awaiting" /\ req[1].host = "localhost" /\ SigOf(1) = HTTP
  /\ FinishedLogs(1) = 0 /\ ~res[1].functionExecutionFinished
  /\ req[2].pc = "done" /\ req[2].host = "cloudfunctions.net" /\ SigOf(2) = HTTP
  /\ req[2].app = req[1].app
  /\ StartedLogs(2) = 0 /\ Invocations(2) = 1
  /\ res[2].functionExecutionFinished

\* C16: for one HTTP request the flag-set and the executor are unordered
\* (the witness holds both orders: a flag set while the handler still runs,
\* and a finished log made while the flag is not yet set). In every state a
\* run of the observer, and a second run after it, leave the flag true; in
\* every step that finishes a response nothing but that response's finish
\* state and flag is written, and a set flag stays set.
C16_State ==
  \A r \in Requests :
    res[r].observers > 0 =>
      /\ FinishSignal(res, r)[r].functionExecutionFinished
      /\ FinishSignal(FinishSignal(res, r), r)[r].functionExecutionFinished

C16_Step ==
  \A r \in Requests :
    /\ (res'[r].finished /\ ~res[r].finished) =>
         /\ req' = req /\ trace' = trace /\ err' = err /\ routes' = routes
         /\ res'[r].statusCode = res[r].statusCode
         /\ res'[r].body = res[r].body
         /\ res'[r].ended = res[r].ended
         /\ res'[r].observers = res[r].observers
         /\ \A q \in Requests : q # r => res'[q] = res[q]
    /\ res[r].functionExecutionFinished => res'[r].functionExecutionFinished
    /\ res'[r].functionExecutionFinished # res[r].functionExecutionFinished =>
         (res'[r].finished /\ ~res[r].finished)

\* C16: the state part holds in every state and the step part in every step
C16_FlagAndExecutorUnordered ==
  []C16_State /\ [][C16_Step]_vars

C16_Witness ==
  /\ \E r \in Requests :
       /\ SigOf(r) = HTTP /\ req[r].host = "localhost"
       /\ req[r].pc = "awaiting" /\ FinishedLogs(r) = 0
       /\ res[r].functionExecutionFinished
  /\ \E r \in Requests :
       /\ SigOf(r) = HTTP /\ req[r].host = "localhost"
       /\ req[r].pc = "done" /\ FinishedLogs(r) = 1
       /\ ~res[r].functionExecutionFinished /\ res[r].observers = 1

\* C17: registerFunctionRoutes raises nothing and validates nothing: on an
\* application without routes it can be called with every signature value,
\* and with a value that is neither HTTP nor EVENT it registers exactly the
\* CLOUD_EVENT table (one POST catch-all through the cloud-event adapter).
\* An error exists only for a request that was served and whose handler was
\* invoked.
C17_NoValidationAtRegistration ==
  /\ \A a \in Apps :
       /\ routes[a] = << >> =>
            \A s \in SignatureInputs :
              ENABLED RegisterFunctionRoutes(a, UserFunctionOf[a], s)
       /\ sigType[a] \notin {"none", HTTP, EVENT} =>
            routes[a] = << Layer("POST", "/*", "cloudevent", UserFunctionOf[a]) >>
       /\ sigType[a] # "none" => routes[a] # << >>
  /\ \A r \in Requests :
       /\ (err[r] # "none" \/ req[r].pc = "rejected") =>
            (Arrived(r) /\ Invocations(r) = 1)
       /\ (Arrived(r) /\ SigOf(r) = MalformedSignature) =>
            IF req[r].method = "POST"
            THEN /\ Count(trace[r], "wrapCloudEventFunction") = 1
                 /\ Invocations(r) = 1
            ELSE req[r].pc = "unmatched"

C17_Witness ==
  /\ sigType["app1"] = MalformedSignature
  /\ \E r \in Requests :
       /\ req[r].app = "app1" /\ req[r].method = "POST"
       /\ req[r].pc = "rejected" /\ err[r] # "none"
       /\ Count(trace[r], "wrapCloudEventFunction") = 1

\* C12: the duration handed to the finished log is the wall-clock time from
\* just before the handler call to its settlement in whole milliseconds, the
\* part below a millisecond cut off: a non-negative integer, and at least
\* 1000 for an invocation of one second or more.
C12_DurationIsElapsedWholeMs ==
  clock.pc = "logged" =>
    /\ clock.duration.frac = 0
    /\ clock.duration.whole >= 0
    /\ clock.duration.whole = clock.elapsed[1] * 1000 + clock.elapsed[2] \div NsPerMs
    /\ clock.elapsed[1] >= 1 => clock.duration.whole >= 1000

====
